---- MODULE Spec2Model ----
(***************************************************************************)
(* Model of the GL resource factory, src/backend/gl/src/factory.rs.        *)
(*                                                                         *)
(* State: the capabilities of the shared device context, the native        *)
(* objects the GL context holds (a native name is an index into            *)
(* gl_objects), the shared handle registry (a handle is an index into      *)
(* handles), the factory's frame_handles table, and the arguments and the  *)
(* return value of the most recent call.  Every public operation of the    *)
(* factory is one action, parameterised by its arguments; where a handler  *)
(* calls a fallible native routine, the routine succeeds or returns an     *)
(* error, nondeterministically.                                            *)
(***************************************************************************)
EXTENDS Integers, Sequences, FiniteSets, TLC

VARIABLES caps, gl_objects, handles, frame_handles, call, result

vars == <<caps, gl_objects, handles, frame_handles, call, result>>

\* Largest number of registry entries, and of native objects, explored.
MaxHandles == 2

----------------------------------------------------------------------------
\* Option<T>: None is the empty sequence, Some(v) the one-element sequence.
None == <<>>

Some(v) == <<v>>

is_some(o) == o /= <<>>

unwrap_or(o, dflt) == IF is_some(o) THEN o[1] ELSE dflt

\* Result values.  The payload is always an integer: a handle, a dimension, a
\* native name, or 0 when the variant carries nothing.
Ok(h) == [tag |-> "Ok", payload |-> h]

Err(e, p) == [tag |-> e, payload |-> p]

NoResult == [tag |-> "None", payload |-> 0]

NoCall == [op |-> "none"]

----------------------------------------------------------------------------
\* Device context: Share.capabilities and Share.private_caps.
Capabilities ==
    [constant_buffer_supported : BOOLEAN,
     buffer_storage_supported : BOOLEAN,
     immutable_storage_supported : BOOLEAN,
     max_texture_size : {1, 2}]

\* handle::Manager::make_*: the registry appends the object and hands back a
\* handle to it.
Register(reg, entry) == Append(reg, entry)

NewHandle(reg) == Len(reg) + 1

\* handle::Manager::ref_* / Handle::reference: resolving a handle through a
\* manager records the handle in that manager and yields the native resource.
\* The manager keeps one entry per resolution; the model keeps the set of
\* handles that have an entry.
ref_handle(fh, h) == fh \cup {h}

resource_of(reg, h) == reg[h].resource

HandlesOfKind(reg, k) == {h \in 1..Len(reg) : reg[h].kind = k}

\* Room left in the explored part of the registry and of the name space.
Room == Len(handles) < MaxHandles /\ Len(gl_objects) < MaxHandles

\* A program needs two shaders before it and a pipeline state object a
\* program: their registry may hold one, respectively two, entries more.
PipelineRoom == Len(handles) <= MaxHandles /\ Len(gl_objects) <= MaxHandles

MaxPipelineHandles == MaxHandles + 2

----------------------------------------------------------------------------
\* Buffer subsystem.

Roles == {"Vertex", "Index", "Uniform"}

Usages == {"GpuOnly", "Const", "Dynamic", "CpuOnly"}

BufferInfos ==
    [role : Roles, usage : Usages, bind : {{}}, size : {256}, stride : {4}]

ByteSeqs == {<<17, 34>>}

MapAccesses == {"Readable", "Writable", "RW"}

role_to_target(role) ==
    CASE role = "Vertex" -> "ARRAY_BUFFER"
      [] role = "Index" -> "ELEMENT_ARRAY_BUFFER"
      [] role = "Uniform" -> "UNIFORM_BUFFER"

\* GenBuffers: a fresh name with no storage.
create_buffer_internal(gl) ==
    Append(gl, [type |-> "buffer", alloc |-> "none", target |-> "none",
                size |-> 0, usage |-> "none", data |-> <<>>])

init_buffer(gl, buffer, info) ==
    LET target == role_to_target(info.role) IN
    IF caps.buffer_storage_supported
    THEN LET usage == IF info.usage = "GpuOnly" THEN "0"
                      ELSE "MAP_WRITE_BIT|DYNAMIC_STORAGE_BIT"
         IN [gl EXCEPT ![buffer] =
                [type |-> "buffer", alloc |-> "BufferStorage", target |-> target,
                 size |-> info.size, usage |-> usage, data |-> <<>>]]
    ELSE LET usage == CASE info.usage = "GpuOnly" -> "STATIC_DRAW"
                        [] info.usage = "Const" -> "STATIC_DRAW"
                        [] info.usage = "Dynamic" -> "DYNAMIC_DRAW"
                        [] info.usage = "CpuOnly" -> "STREAM_DRAW"
         IN [gl EXCEPT ![buffer] =
                [type |-> "buffer", alloc |-> "BufferData", target |-> target,
                 size |-> info.size, usage |-> usage, data |-> <<>>]]

\* BufferSubData of `size` bytes at `offset` on the role's binding point.
update_sub_buffer(gl, buffer, data, size, offset, role) ==
    [gl EXCEPT ![buffer].data =
        [i \in 1..(offset + size) |->
            IF i > offset THEN data[i - offset]
            ELSE IF i <= Len(@) THEN @[i] ELSE 0],
     ![buffer].target = role_to_target(role)]

create_buffer_raw_unchecked(info) ==
    /\ Room
    /\ call' = [op |-> "create_buffer", info |-> info]
    /\ LET gl1 == create_buffer_internal(gl_objects)
           name == Len(gl1)
       IN /\ gl_objects' = init_buffer(gl1, name, info)
          /\ handles' = Register(handles,
                 [kind |-> "buffer", resource |-> name, info |-> info, parent |-> 0])
          /\ result' = Ok(NewHandle(handles))
    /\ UNCHANGED <<caps, frame_handles>>

create_buffer_raw(info) ==
    /\ call' = [op |-> "create_buffer", info |-> info]
    /\ IF ~caps.constant_buffer_supported /\ info.role = "Uniform"
       THEN /\ result' = Err("Other", 0)
            /\ UNCHANGED <<gl_objects, handles>>
       ELSE /\ Room
            /\ LET gl1 == create_buffer_internal(gl_objects)
                   name == Len(gl1)
               IN /\ gl_objects' = init_buffer(gl1, name, info)
                  /\ handles' = Register(handles,
                         [kind |-> "buffer", resource |-> name, info |-> info,
                          parent |-> 0])
                  /\ result' = Ok(NewHandle(handles))
    /\ UNCHANGED <<caps, frame_handles>>

create_buffer_const_raw(data, stride, role, bind) ==
    /\ Room
    /\ call' = [op |-> "create_buffer_const", data |-> data, stride |-> stride,
                role |-> role, bind |-> bind]
    /\ LET gl1 == create_buffer_internal(gl_objects)
           name == Len(gl1)
           info == [role |-> role, usage |-> "Const", bind |-> bind,
                    size |-> Len(data), stride |-> stride]
           gl2 == init_buffer(gl1, name, info)
       IN /\ gl_objects' = update_sub_buffer(gl2, name, data, Len(data), 0, role)
          /\ handles' = Register(handles,
                 [kind |-> "buffer", resource |-> name, info |-> info, parent |-> 0])
          /\ result' = Ok(NewHandle(handles))
    /\ UNCHANGED <<caps, frame_handles>>

\* GenTextures + TexBuffer(R8) over the resolved buffer name.
view_buffer_as_shader_resource_raw(hbuf) ==
    /\ Room
    /\ hbuf \in HandlesOfKind(handles, "buffer")
    /\ call' = [op |-> "view_buffer_as_shader_resource", handle |-> hbuf]
    /\ frame_handles' = ref_handle(frame_handles, hbuf)
    /\ LET buf_name == resource_of(handles, hbuf)
           name == Len(gl_objects) + 1
       IN /\ gl_objects' = Append(gl_objects,
                 [type |-> "texture_buffer", format |-> "R8", buffer |-> buf_name])
          /\ handles' = Register(handles,
                 [kind |-> "srv", resource |-> <<"Buffer", name>>, info |-> None,
                  parent |-> hbuf])
          /\ result' = Ok(NewHandle(handles))
    /\ UNCHANGED caps

view_buffer_as_unordered_access_raw(hbuf) ==
    /\ hbuf \in HandlesOfKind(handles, "buffer")
    /\ call' = [op |-> "view_buffer_as_unordered_access", handle |-> hbuf]
    /\ result' = Err("Unsupported", 0)
    /\ UNCHANGED <<caps, gl_objects, handles, frame_handles>>

\* MapBuffer on ARRAY_BUFFER; the mapping remembers that binding point.
map_buffer_raw(buf, access) ==
    /\ buf \in HandlesOfKind(handles, "buffer")
    /\ call' = [op |-> "map_buffer", handle |-> buf, access |-> access]
    /\ frame_handles' = ref_handle(frame_handles, buf)
    /\ result' = [tag |-> "Mapping", payload |-> resource_of(handles, buf)]
    /\ UNCHANGED <<caps, gl_objects, handles>>

----------------------------------------------------------------------------
\* Texture and view subsystem.

BindSets == {{"RENDER_TARGET"}, {"SHADER_RESOURCE", "RENDER_TARGET"},
             {"UNORDERED_ACCESS"}}

\* A texture descriptor: kind is <<width, height>>.
TexDescs ==
    [kind : {<<1, 1>>, <<3, 1>>, <<1, 3>>, <<4, 3>>}, levels : {0, 1},
     bind : BindSets]

\* The descriptors that pass every size check under each modelled limit.
SmallTexDescs ==
    [kind : {<<1, 1>>}, levels : {1}, bind : BindSets]

Hints == {None, Some("Float")}

DataOpts == {None, Some(<<17, 34>>)}

Levels == {0, 1}

Layers == {None, Some(0)}

ResourceDescs == [min : {0}, max : {0, 1}]

get_dimensions(kind) == kind

intersects(bind, flags) == bind \cap flags /= {}

\* tex::make_with_storage, tex::make_without_storage, tex::make_surface: a
\* fresh native object of the given type.
tex_make(gl, type, alloc) ==
    Append(gl, [type |-> type, alloc |-> alloc, uploaded |-> FALSE])

\* tex::init_texture_data: the texels of every level are written.
init_texture_data(gl, name) == [gl EXCEPT ![name].uploaded = TRUE]

TextureEntry(object, desc) ==
    [kind |-> "texture", resource |-> object, info |-> desc, parent |-> 0]

\* As create_texture_object, but only the bind flags choose the object.
create_texture_object_bind_only(desc, data_opt) ==
    /\ Room
    /\ IF intersects(desc.bind, {"SHADER_RESOURCE", "UNORDERED_ACCESS"})
       THEN LET alloc == IF caps.immutable_storage_supported
                         THEN "TexStorage" ELSE "TexImage"
                gl1 == tex_make(gl_objects, "texture", alloc)
                name == Len(gl1)
            IN /\ gl_objects' = IF is_some(data_opt)
                                THEN init_texture_data(gl1, name) ELSE gl1
               /\ handles' = Register(handles,
                      TextureEntry(<<"Texture", name>>, desc))
               /\ result' = Ok(NewHandle(handles))
       ELSE LET gl1 == tex_make(gl_objects, "surface", "RenderbufferStorage")
                name == Len(gl1)
            IN /\ gl_objects' = gl1
               /\ handles' = Register(handles,
                      TextureEntry(<<"Surface", name>>, desc))
               /\ result' = Ok(NewHandle(handles))

\* The object chosen and the native calls made once the size checks passed.
\* Each native routine the handler calls through try! either succeeds or
\* returns an error.
create_texture_object(desc, data_opt) ==
    /\ Room
    /\ IF intersects(desc.bind, {"SHADER_RESOURCE", "UNORDERED_ACCESS"})
          \/ is_some(data_opt)
       THEN \E alloc_ok \in BOOLEAN :
            IF ~alloc_ok
            THEN /\ result' = Err("NativeAllocation", 0)
                 /\ UNCHANGED <<gl_objects, handles>>
            ELSE LET alloc == IF caps.immutable_storage_supported
                              THEN "TexStorage" ELSE "TexImage"
                     gl1 == tex_make(gl_objects, "texture", alloc)
                     name == Len(gl1)
                 IN IF is_some(data_opt)
                    THEN \E upload_ok \in BOOLEAN :
                         IF ~upload_ok
                         THEN /\ result' = Err("NativeUpload", 0)
                              /\ gl_objects' = gl1
                              /\ UNCHANGED handles
                         ELSE /\ gl_objects' = init_texture_data(gl1, name)
                              /\ handles' = Register(handles,
                                     TextureEntry(<<"Texture", name>>, desc))
                              /\ result' = Ok(NewHandle(handles))
                    ELSE /\ gl_objects' = gl1
                         /\ handles' = Register(handles,
                                TextureEntry(<<"Texture", name>>, desc))
                         /\ result' = Ok(NewHandle(handles))
       ELSE \E alloc_ok \in BOOLEAN :
            IF ~alloc_ok
            THEN /\ result' = Err("NativeAllocation", 0)
                 /\ UNCHANGED <<gl_objects, handles>>
            ELSE LET gl1 == tex_make(gl_objects, "surface", "RenderbufferStorage")
                     name == Len(gl1)
                 IN /\ gl_objects' = gl1
                    /\ handles' = Register(handles,
                           TextureEntry(<<"Surface", name>>, desc))
                    /\ result' = Ok(NewHandle(handles))

\* As create_texture_raw, with the size checks ahead of the level check.
create_texture_raw_size_first(desc, hint, data_opt) ==
    /\ call' = [op |-> "create_texture", desc |-> desc, hint |-> hint,
                data |-> is_some(data_opt)]
    /\ LET dim == get_dimensions(desc.kind)
           max_size == caps.max_texture_size
       IN IF dim[1] > max_size
          THEN /\ result' = Err("Size", dim[1])
               /\ UNCHANGED <<gl_objects, handles>>
          ELSE IF dim[2] > max_size
          THEN /\ result' = Err("Size", dim[2])
               /\ UNCHANGED <<gl_objects, handles>>
          ELSE IF desc.levels = 0
          THEN /\ result' = Err("Size", 0)
               /\ UNCHANGED <<gl_objects, handles>>
          ELSE create_texture_object(desc, data_opt)
    /\ UNCHANGED <<caps, frame_handles>>

\* As create_texture_raw, with the height checked before the width.
create_texture_raw_height_first(desc, hint, data_opt) ==
    /\ call' = [op |-> "create_texture", desc |-> desc, hint |-> hint,
                data |-> is_some(data_opt)]
    /\ LET dim == get_dimensions(desc.kind)
           max_size == caps.max_texture_size
       IN IF desc.levels = 0
          THEN /\ result' = Err("Size", 0)
               /\ UNCHANGED <<gl_objects, handles>>
          ELSE IF dim[2] > max_size
          THEN /\ result' = Err("Size", dim[2])
               /\ UNCHANGED <<gl_objects, handles>>
          ELSE IF dim[1] > max_size
          THEN /\ result' = Err("Size", dim[1])
               /\ UNCHANGED <<gl_objects, handles>>
          ELSE create_texture_object(desc, data_opt)
    /\ UNCHANGED <<caps, frame_handles>>

create_texture_raw(desc, hint, data_opt) ==
    /\ call' = [op |-> "create_texture", desc |-> desc, hint |-> hint,
                data |-> is_some(data_opt)]
    /\ LET dim == get_dimensions(desc.kind)
           max_size == caps.max_texture_size
       IN IF desc.levels = 0
          THEN /\ result' = Err("Size", 0)
               /\ UNCHANGED <<gl_objects, handles>>
          ELSE IF dim[1] > max_size
          THEN /\ result' = Err("Size", dim[1])
               /\ UNCHANGED <<gl_objects, handles>>
          ELSE IF dim[2] > max_size
          THEN /\ result' = Err("Size", dim[2])
               /\ UNCHANGED <<gl_objects, handles>>
          ELSE create_texture_object(desc, data_opt)
    /\ UNCHANGED <<caps, frame_handles>>

\* As view_texture_as_target, but a surface only refuses a level other than 0.
view_texture_as_target_any_layer(object, level, layer) ==
    IF object[1] = "Surface"
    THEN IF level /= 0 THEN [ok |-> FALSE, err |-> "Unsupported"]
         ELSE [ok |-> TRUE, view |-> <<"Surface", object[2]>>]
    ELSE IF is_some(layer)
         THEN [ok |-> TRUE, view |-> <<"TextureLayer", object[2], level, layer[1]>>]
         ELSE [ok |-> TRUE, view |-> <<"Texture", object[2], level>>]

\* The target view over a resolved texture object, or the error.
view_texture_as_target(object, level, layer) ==
    IF object[1] = "Surface"
    THEN IF is_some(layer) THEN [ok |-> FALSE, err |-> "Unsupported"]
         ELSE IF level /= 0 THEN [ok |-> FALSE, err |-> "Unsupported"]
         ELSE [ok |-> TRUE, view |-> <<"Surface", object[2]>>]
    ELSE IF is_some(layer)
         THEN [ok |-> TRUE, view |-> <<"TextureLayer", object[2], level, layer[1]>>]
         ELSE [ok |-> TRUE, view |-> <<"Texture", object[2], level>>]

\* What the two target-view handlers share: resolve, derive, register.
view_texture_as_target_raw(op, kind, htex, desc, dim_level) ==
    /\ htex \in HandlesOfKind(handles, "texture")
    /\ call' = [op |-> op, handle |-> htex, level |-> desc.level,
                layer |-> desc.layer]
    /\ frame_handles' = ref_handle(frame_handles, htex)
    /\ LET r == view_texture_as_target(resource_of(handles, htex), desc.level,
                                       desc.layer)
       IN IF r.ok
          THEN /\ Len(handles) < MaxHandles
               /\ handles' = Register(handles,
                      [kind |-> kind, resource |-> r.view,
                       info |-> [dim_level |-> dim_level], parent |-> htex])
               /\ result' = Ok(NewHandle(handles))
          ELSE /\ result' = Err(r.err, 0)
               /\ UNCHANGED handles
    /\ UNCHANGED <<caps, gl_objects>>

view_texture_as_render_target_raw(htex, desc) ==
    view_texture_as_target_raw("view_texture_as_render_target", "rtv", htex, desc,
                               desc.level)

view_texture_as_depth_stencil_raw(htex, desc) ==
    view_texture_as_target_raw("view_texture_as_depth_stencil", "dsv", htex, desc, 0)

\* As view_texture_as_shader_resource_raw, but a surface is viewed as well.
view_texture_as_shader_resource_raw_any(htex, desc) ==
    /\ htex \in HandlesOfKind(handles, "texture")
    /\ call' = [op |-> "view_texture_as_shader_resource", handle |-> htex,
                desc |-> desc]
    /\ frame_handles' = ref_handle(frame_handles, htex)
    /\ Len(handles) < MaxHandles
    /\ handles' = Register(handles,
           [kind |-> "srv",
            resource |-> <<"Texture", resource_of(handles, htex)[2],
                           handles[htex].info.kind>>,
            info |-> None, parent |-> htex])
    /\ result' = Ok(NewHandle(handles))
    /\ UNCHANGED <<caps, gl_objects>>

view_texture_as_shader_resource_raw(htex, desc) ==
    /\ htex \in HandlesOfKind(handles, "texture")
    /\ call' = [op |-> "view_texture_as_shader_resource", handle |-> htex,
                desc |-> desc]
    /\ frame_handles' = ref_handle(frame_handles, htex)
    /\ LET object == resource_of(handles, htex)
       IN IF object[1] = "Surface"
          THEN /\ result' = Err("NoBindFlag", 0)
               /\ UNCHANGED handles
          ELSE /\ Len(handles) < MaxHandles
               /\ handles' = Register(handles,
                      [kind |-> "srv",
                       resource |-> <<"Texture", object[2], handles[htex].info.kind>>,
                       info |-> None, parent |-> htex])
               /\ result' = Ok(NewHandle(handles))
    /\ UNCHANGED <<caps, gl_objects>>

view_texture_as_unordered_access_raw(htex) ==
    /\ htex \in HandlesOfKind(handles, "texture")
    /\ call' = [op |-> "view_texture_as_unordered_access", handle |-> htex]
    /\ result' = Err("Unsupported", 0)
    /\ UNCHANGED <<caps, gl_objects, handles, frame_handles>>

----------------------------------------------------------------------------
\* Shader, program and pipeline state subsystem.

Stages == {"Vertex", "Geometry", "Pixel"}

\* ::shade::create_shader compiles the source; a handle is registered only for
\* a shader that compiled.
create_shader(stage, code) ==
    /\ call' = [op |-> "create_shader", stage |-> stage]
    /\ PipelineRoom
    /\ \E compiled \in BOOLEAN :
          IF compiled
          THEN /\ gl_objects' = Append(gl_objects, [type |-> "shader", stage |-> stage])
               /\ handles' = Register(handles,
                      [kind |-> "shader", resource |-> Len(gl_objects) + 1,
                       info |-> stage, parent |-> 0])
               /\ result' = Ok(NewHandle(handles))
          ELSE /\ result' = Err("CreateShaderError", 0)
               /\ UNCHANGED <<gl_objects, handles>>
    /\ UNCHANGED <<caps, frame_handles>>

ShadersOfStage(reg, stage) ==
    {h \in HandlesOfKind(reg, "shader") : reg[h].info = stage}

\* The shader sets that can be built from the registered shader handles.
ShaderSets(reg) ==
    {[shape |-> "Simple", stages |-> <<vs, ps>>] :
        vs \in ShadersOfStage(reg, "Vertex"), ps \in ShadersOfStage(reg, "Pixel")}
    \cup
    {[shape |-> "Geometry", stages |-> <<vs, gs, ps>>] :
        vs \in ShadersOfStage(reg, "Vertex"), gs \in ShadersOfStage(reg, "Geometry"),
        ps \in ShadersOfStage(reg, "Pixel")}
    \cup
    {[shape |-> "Tessellated", stages |-> <<vs, hs, ds, ps>>] :
        vs \in ShadersOfStage(reg, "Vertex"), hs \in ShadersOfStage(reg, "Hull"),
        ds \in ShadersOfStage(reg, "Domain"), ps \in ShadersOfStage(reg, "Pixel")}

get_usage(shader_set) == shader_set.shape

\* The native names handed to the linker, in order, and the frame handles
\* after resolving them.
shader_slice(shader_set) ==
    LET st == shader_set.stages IN
    CASE shader_set.shape = "Simple" ->
            <<resource_of(handles, st[1]), resource_of(handles, st[2])>>
      [] shader_set.shape = "Geometry" ->
            <<resource_of(handles, st[1]), resource_of(handles, st[2]),
              resource_of(handles, st[3])>>
      [] shader_set.shape = "Tessellated" ->
            <<resource_of(handles, st[1]), resource_of(handles, st[2]),
              resource_of(handles, st[3]), resource_of(handles, st[4])>>

RECURSIVE reference_all(_, _, _)
reference_all(fh, st, i) ==
    IF i > Len(st) THEN fh ELSE reference_all(ref_handle(fh, st[i]), st, i + 1)

\* create_program_raw followed by the registration of create_program.
create_program(shader_set) ==
    /\ shader_set \in ShaderSets(handles)
    /\ call' = [op |-> "create_program", shader_set |-> shader_set]
    /\ PipelineRoom
    /\ frame_handles' = reference_all(frame_handles, shader_set.stages, 1)
    /\ \E linked \in BOOLEAN :
          IF linked
          THEN /\ gl_objects' = Append(gl_objects,
                      [type |-> "program", shaders |-> shader_slice(shader_set),
                       usage |-> get_usage(shader_set)])
               /\ handles' = Register(handles,
                      [kind |-> "program", resource |-> Len(gl_objects) + 1,
                       info |-> get_usage(shader_set), parent |-> 0])
               /\ result' = Ok(NewHandle(handles))
          ELSE /\ result' = Err("CreateProgramError", 0)
               /\ UNCHANGED <<gl_objects, handles>>
    /\ UNCHANGED caps

MAX_COLOR_TARGETS == 4

MAX_VERTEX_ATTRIBUTES == 16

MASK_ALL == 15

COLOR_DEFAULT == [mask |-> MASK_ALL, blend |-> None]

\* Default::default() of a blend channel and of a stencil side.
BlendChannelDefault == [equation |-> "Add", source |-> "One", destination |-> "Zero"]

StencilSideDefault == [fun |-> "Always", op_pass |-> "Keep"]

unwrap_or_default(o, dflt) == unwrap_or(o, dflt)

BlendOne == [equation |-> "Add", source |-> "One", destination |-> "One"]

BlendAlpha == [equation |-> "Add", source |-> "SrcAlpha", destination |-> "OneMinusSrcAlpha"]

\* The color-target configurations a slot of a descriptor may hold.
ColorInfos ==
    {[mask |-> MASK_ALL, color |-> None, alpha |-> None],
     [mask |-> MASK_ALL, color |-> Some(BlendOne), alpha |-> None],
     [mask |-> 5, color |-> None, alpha |-> Some(BlendAlpha)]}

ColorTargets == {None} \cup {Some(<<"Rgba8", bi>>) : bi \in ColorInfos}

StencilSide == [fun |-> "Less", op_pass |-> "Replace"]

DepthStencils ==
    {None,
     Some(<<"Depth24Stencil8", [front |-> Some(StencilSide), back |-> None,
                                depth |-> Some("LessEqual")]>>)}

\* Attribute 0 reads vertex buffer 0; the other slots are empty.
Attributes ==
    [i \in 0..(MAX_VERTEX_ATTRIBUTES - 1) |->
        IF i = 0 THEN Some(<<0, "Float3">>) ELSE None]

VertexBuffers == [i \in 0..0 |-> Some([stride |-> 12, rate |-> 0])]

PsoDescs ==
    [primitive : {"TriangleList"}, scissor : {FALSE}, rasterizer : {"Fill"},
     depth_stencil : DepthStencils,
     color_targets : [0..(MAX_COLOR_TARGETS - 1) -> ColorTargets],
     attributes : {Attributes}, vertex_buffers : {VertexBuffers}]

RECURSIVE BitOr(_, _)
BitOr(a, b) ==
    IF a = 0 THEN b
    ELSE IF b = 0 THEN a
    ELSE (IF a % 2 = 1 \/ b % 2 = 1 THEN 1 ELSE 0) + 2 * BitOr(a \div 2, b \div 2)

Shl(i) == 2 ^ i

stencil_of(desc) ==
    IF is_some(desc.depth_stencil)
       /\ (is_some(desc.depth_stencil[1][2].front)
           \/ is_some(desc.depth_stencil[1][2].back))
    THEN Some([front |-> unwrap_or_default(desc.depth_stencil[1][2].front,
                                            StencilSideDefault),
               back |-> unwrap_or_default(desc.depth_stencil[1][2].back,
                                           StencilSideDefault)])
    ELSE None

depth_of(desc) ==
    IF is_some(desc.depth_stencil) THEN desc.depth_stencil[1][2].depth ELSE None

\* As color_slot, but blend state is attached only when a color factor is given.
color_slot_color_only(output, desc, i) ==
    IF is_some(desc.color_targets[i])
    THEN LET bi == desc.color_targets[i][1][2]
             blend == IF is_some(bi.color)
                      THEN Some([color |-> unwrap_or_default(bi.color,
                                                              BlendChannelDefault),
                                 alpha |-> unwrap_or_default(bi.alpha,
                                                              BlendChannelDefault)])
                      ELSE output.colors[i].blend
         IN [output EXCEPT !.draw_mask = BitOr(@, Shl(i)),
                           !.colors[i] = [mask |-> bi.mask, blend |-> blend]]
    ELSE output

\* One pass of the loop over the color-target slots.
color_slot(output, desc, i) ==
    IF is_some(desc.color_targets[i])
    THEN LET bi == desc.color_targets[i][1][2]
             blend == IF is_some(bi.color) \/ is_some(bi.alpha)
                      THEN Some([color |-> unwrap_or_default(bi.color,
                                                              BlendChannelDefault),
                                 alpha |-> unwrap_or_default(bi.alpha,
                                                              BlendChannelDefault)])
                      ELSE output.colors[i].blend
         IN [output EXCEPT !.draw_mask = BitOr(@, Shl(i)),
                           !.colors[i] = [mask |-> bi.mask, blend |-> blend]]
    ELSE output

RECURSIVE color_loop(_, _, _)
color_loop(output, desc, i) ==
    IF i >= MAX_COLOR_TARGETS THEN output
    ELSE color_loop(color_slot(output, desc, i), desc, i + 1)

output_merger(desc) ==
    color_loop([draw_mask |-> 0,
                stencil |-> stencil_of(desc),
                depth |-> depth_of(desc),
                colors |-> [i \in 0..(MAX_COLOR_TARGETS - 1) |-> COLOR_DEFAULT]],
               desc, 0)

\* unwrap() of the vertex buffer an attribute names: the handler panics on a
\* descriptor whose attribute names an empty vertex-buffer slot.
attributes_resolvable(desc) ==
    \A i \in 0..(MAX_VERTEX_ATTRIBUTES - 1) :
        is_some(desc.attributes[i]) =>
            /\ desc.attributes[i][1][1] \in DOMAIN desc.vertex_buffers
            /\ is_some(desc.vertex_buffers[desc.attributes[i][1][1]])

vertex_inputs(desc) ==
    [i \in 0..(MAX_VERTEX_ATTRIBUTES - 1) |->
        IF is_some(desc.attributes[i])
        THEN Some([desc |-> desc.vertex_buffers[desc.attributes[i][1][1]][1],
                   elem |-> desc.attributes[i][1][2]])
        ELSE None]

create_pipeline_state_raw(program, desc) ==
    /\ program \in HandlesOfKind(handles, "program")
    /\ attributes_resolvable(desc)
    /\ Len(handles) < MaxPipelineHandles
    /\ call' = [op |-> "create_pipeline_state", program |-> program, desc |-> desc]
    /\ frame_handles' = ref_handle(frame_handles, program)
    /\ LET pso == [program |-> resource_of(handles, program),
                   primitive |-> desc.primitive,
                   input |-> vertex_inputs(desc),
                   scissor |-> desc.scissor,
                   rasterizer |-> desc.rasterizer,
                   output |-> output_merger(desc)]
       IN /\ handles' = Register(handles,
                 [kind |-> "pso", resource |-> pso, info |-> None,
                  parent |-> program])
          /\ result' = Ok(NewHandle(handles))
    /\ UNCHANGED <<caps, gl_objects>>

----------------------------------------------------------------------------
Init ==
    /\ caps \in Capabilities
    /\ gl_objects = <<>>
    /\ handles = <<>>
    /\ frame_handles = {}
    /\ call = NoCall
    /\ result = NoResult

\* Buffer operations read neither the texture size limit nor the
\* immutable-storage capability.
InitBuffer ==
    /\ Init
    /\ caps.immutable_storage_supported
    /\ caps.max_texture_size = 2

NextBuffer ==
    \/ \E info \in BufferInfos : create_buffer_raw(info)
    \/ \E data \in ByteSeqs, role \in Roles :
          create_buffer_const_raw(data, 4, role, {})
    \/ \E h \in 1..MaxHandles : view_buffer_as_shader_resource_raw(h)
    \/ \E h \in 1..MaxHandles : view_buffer_as_unordered_access_raw(h)
    \/ \E h \in 1..MaxHandles, a \in MapAccesses : map_buffer_raw(h, a)

SpecBuffer == InitBuffer /\ [][NextBuffer]_vars

\* Texture creation reads neither buffer capability.
InitTexture ==
    /\ Init
    /\ caps.constant_buffer_supported
    /\ caps.buffer_storage_supported

NextTexture ==
    \E desc \in TexDescs, hint \in Hints, data \in DataOpts :
        create_texture_raw(desc, hint, data)

SpecTexture == InitTexture /\ [][NextTexture]_vars

RenderDescs == [level : Levels, layer : Layers]

NextView ==
    \/ \E desc \in SmallTexDescs, data \in DataOpts :
          create_texture_raw(desc, None, data)
    \/ \E h \in 1..MaxHandles, d \in ResourceDescs :
          view_texture_as_shader_resource_raw(h, d)
    \/ \E h \in 1..MaxHandles, d \in RenderDescs :
          view_texture_as_render_target_raw(h, d)
    \/ \E h \in 1..MaxHandles, d \in RenderDescs :
          view_texture_as_depth_stencil_raw(h, d)
    \/ \E h \in 1..MaxHandles : view_texture_as_unordered_access_raw(h)

SpecView == InitTexture /\ [][NextView]_vars

\* Shader, program and pipeline operations read no capability the model branches on.
InitPipeline ==
    /\ Init
    /\ caps.constant_buffer_supported
    /\ caps.buffer_storage_supported
    /\ caps.immutable_storage_supported
    /\ caps.max_texture_size = 2

NextPipeline ==
    \/ \E stage \in Stages : create_shader(stage, <<>>)
    \/ \E shader_set \in ShaderSets(handles) : create_program(shader_set)
    \/ \E h \in HandlesOfKind(handles, "program") :
          /\ Len(handles) < MaxPipelineHandles
          /\ \E desc \in PsoDescs : create_pipeline_state_raw(h, desc)

SpecPipeline == InitPipeline /\ [][NextPipeline]_vars

----------------------------------------------------------------------------
\* Properties.

IsError(r) == r.tag \notin {"Ok", "Mapping", "None"}

UniformRejected(c) ==
    /\ c.op = "create_buffer"
    /\ c.info.role = "Uniform"
    /\ ~caps.constant_buffer_supported

C2_ErrorsHaveNoEffect ==
    [][IsError(result') => (handles' = handles /\ gl_objects' = gl_objects)]_vars

\* C3: on a context without constant-buffer capability the registry never
\* holds a buffer of role Uniform, whichever of create_buffer and
\* create_buffer_with_data created it.
C3_NoUniformWithoutCapability ==
    ~caps.constant_buffer_supported =>
        \A h \in HandlesOfKind(handles, "buffer") : handles[h].info.role /= "Uniform"

\* C4: create_texture of a descriptor with levels = 0 returns Size(0) whatever
\* the capabilities, the size limit and the rest of the descriptor are, creates
\* no native object and registers nothing.
C4_ZeroLevels ==
    [][(call'.op = "create_texture" /\ call'.desc.levels = 0) =>
          /\ result' = Err("Size", 0)
          /\ gl_objects' = gl_objects
          /\ handles' = handles]_vars

C4_Witness ==
    /\ call.op = "create_texture"
    /\ call.desc.levels = 0
    /\ call.desc.kind[1] > caps.max_texture_size
    /\ call.data
    /\ result = Err("Size", 0)

\* C5: create_texture of a descriptor with levels >= 1 whose width or height
\* exceeds the size limit returns Size(d), d being the width when the width
\* exceeds the limit and the height otherwise, creates no native object and
\* registers nothing; with both dimensions at most the limit no Size error is
\* returned.
C5_Oversize ==
    [][(call'.op = "create_texture" /\ call'.desc.levels >= 1) =>
          LET w == call'.desc.kind[1]
              h == call'.desc.kind[2]
              max_size == caps.max_texture_size
          IN IF w > max_size \/ h > max_size
             THEN /\ result' = Err("Size", IF w > max_size THEN w ELSE h)
                  /\ gl_objects' = gl_objects
                  /\ handles' = handles
             ELSE result'.tag /= "Size"]_vars

C5_Witness ==
    /\ call.op = "create_texture"
    /\ call.desc.levels >= 1
    /\ call.desc.kind = <<4, 3>>
    /\ result = Err("Size", 4)

C5_WitnessAtLimit ==
    /\ call.op = "create_texture"
    /\ call.desc.kind = <<1, 1>>
    /\ caps.max_texture_size = 1
    /\ result.tag = "Ok"

TargetViewOps == {"view_texture_as_render_target", "view_texture_as_depth_stencil"}

TargetViewKind(op) == IF op = "view_texture_as_render_target" THEN "rtv" ELSE "dsv"

\* The step registered exactly one entry, of kind k over handle h, holding view.
RegisteredView(k, h, view) ==
    /\ Len(handles') = Len(handles) + 1
    /\ SubSeq(handles', 1, Len(handles)) = handles
    /\ handles'[Len(handles')].kind = k
    /\ handles'[Len(handles')].parent = h
    /\ handles'[Len(handles')].resource = view
    /\ result' = Ok(Len(handles'))

\* C6: a render-target or depth-stencil view over a Surface is derived if and
\* only if the level is 0 and no layer is given, and fails with Unsupported,
\* registering nothing, otherwise; over a Texture it is always derived, layered
\* with (level, layer) when a layer is given and whole-level otherwise.
C6_TargetViews ==
    [][call'.op \in TargetViewOps =>
          LET h == call'.handle
              object == handles[h].resource
              level == call'.level
              layer == call'.layer
              k == TargetViewKind(call'.op)
          IN IF object[1] = "Surface"
             THEN IF level = 0 /\ layer = None
                  THEN RegisteredView(k, h, <<"Surface", object[2]>>)
                  ELSE result' = Err("Unsupported", 0) /\ handles' = handles
             ELSE IF layer /= None
                  THEN RegisteredView(k, h, <<"TextureLayer", object[2], level, layer[1]>>)
                  ELSE RegisteredView(k, h, <<"Texture", object[2], level>>)]_vars

C6_Witness ==
    /\ call.op \in TargetViewOps
    /\ handles[call.handle].resource[1] = "Surface"
    /\ call.level = 0
    /\ call.layer /= None
    /\ result = Err("Unsupported", 0)

\* C7: a shader-resource view over a Surface fails with NoBindFlag and
\* registers nothing; over a Texture it succeeds and registers exactly one view
\* over that texture, whatever the view descriptor.
C7_ShaderResourceViews ==
    [][call'.op = "view_texture_as_shader_resource" =>
          LET h == call'.handle
              object == handles[h].resource
          IN IF object[1] = "Surface"
             THEN result' = Err("NoBindFlag", 0) /\ handles' = handles
             ELSE RegisteredView("srv", h,
                      <<"Texture", object[2], handles[h].info.kind>>)]_vars

C7_Witness ==
    /\ call.op = "view_texture_as_shader_resource"
    /\ call.desc.max = 1
    /\ result.tag = "Ok"
    /\ handles[result.payload].kind = "srv"
    /\ handles[handles[result.payload].parent].resource[1] = "Texture"

C7_WitnessSurface ==
    /\ call.op = "view_texture_as_shader_resource"
    /\ result = Err("NoBindFlag", 0)

Bit(mask, i) == (mask \div (2 ^ i)) % 2

\* C8: in the output-merger record of an assembled pipeline state, for every
\* color-target slot i: bit i of the draw mask is set iff the descriptor
\* populates slot i; a populated slot carries the descriptor's write mask; the
\* slot has blend state iff it is populated and a color or alpha factor is
\* given, a missing factor taking the default; an unpopulated slot keeps the
\* default color state.  Without depth/stencil state in the descriptor the
\* record has neither stencil nor depth.
C8_OutputMerger ==
    (call.op = "create_pipeline_state" /\ result.tag = "Ok") =>
        LET desc == call.desc
            out == handles[result.payload].resource.output
        IN /\ \A i \in 0..(MAX_COLOR_TARGETS - 1) :
                 LET slot == desc.color_targets[i]
                     color == out.colors[i]
                 IN /\ (Bit(out.draw_mask, i) = 1) <=> (slot /= None)
                    /\ slot = None => color = COLOR_DEFAULT
                    /\ slot /= None =>
                          LET bi == slot[1][2] IN
                          /\ color.mask = bi.mask
                          /\ (color.blend /= None) <=>
                                (bi.color /= None \/ bi.alpha /= None)
                          /\ color.blend /= None =>
                                /\ color.blend[1].color =
                                      IF bi.color /= None THEN bi.color[1]
                                      ELSE BlendChannelDefault
                                /\ color.blend[1].alpha =
                                      IF bi.alpha /= None THEN bi.alpha[1]
                                      ELSE BlendChannelDefault
           /\ out.draw_mask < 2 ^ MAX_COLOR_TARGETS
           /\ desc.depth_stencil = None => (out.stencil = None /\ out.depth = None)

\* One populated slot 0 (mask all, color factor one), no depth/stencil: draw
\* mask bit 0 only, blend on slot 0 only, no stencil, no depth.
C8_Witness ==
    /\ call.op = "create_pipeline_state"
    /\ result.tag = "Ok"
    /\ call.desc.depth_stencil = None
    /\ call.desc.color_targets[0] =
          Some(<<"Rgba8", [mask |-> MASK_ALL, color |-> Some(BlendOne), alpha |-> None]>>)
    /\ \A i \in 1..(MAX_COLOR_TARGETS - 1) : call.desc.color_targets[i] = None
    /\ LET out == handles[result.payload].resource.output
       IN /\ out.draw_mask = 1
          /\ out.colors[0].blend =
                Some([color |-> BlendOne, alpha |-> BlendChannelDefault])
          /\ \A i \in 1..(MAX_COLOR_TARGETS - 1) : out.colors[i].blend = None
          /\ out.stencil = None
          /\ out.depth = None

\* C9: between operations, and so at the start of every public operation, the
\* frame-handles table of the factory is empty.
C9_FrameHandlesEmpty == frame_handles = {}

\* Neither shader-resource nor unordered-access bind flag, and no initial data.
PlainTexture(h) ==
    /\ ~intersects(handles[h].info.bind, {"SHADER_RESOURCE", "UNORDERED_ACCESS"})
    /\ ~gl_objects[handles[h].resource[2]].uploaded

\* C10: create_texture registers an object tagged Texture iff the bind flags
\* include shader-resource or unordered-access or initial data is supplied, and
\* one tagged Surface otherwise; a texture created with neither flag and no
\* data never yields a shader-resource view, and yields a render-target or
\* depth-stencil view only at level 0 with no layer.
C10_TextureOrSurface ==
    [][/\ (call'.op = "create_texture" /\ result'.tag = "Ok") =>
             /\ Len(handles') = Len(handles) + 1
             /\ handles'[Len(handles')].info = call'.desc
             /\ (handles'[Len(handles')].resource[1] = "Texture") <=>
                   (intersects(call'.desc.bind,
                               {"SHADER_RESOURCE", "UNORDERED_ACCESS"})
                    \/ call'.data)
             /\ (handles'[Len(handles')].resource[1] = "Surface") <=>
                   ~(intersects(call'.desc.bind,
                                {"SHADER_RESOURCE", "UNORDERED_ACCESS"})
                     \/ call'.data)
       /\ (call'.op = "view_texture_as_shader_resource"
           /\ PlainTexture(call'.handle)) => result'.tag /= "Ok"
       /\ (call'.op \in TargetViewOps /\ PlainTexture(call'.handle)
           /\ result'.tag = "Ok") => (call'.level = 0 /\ call'.layer = None)]_vars

C10_Witness ==
    /\ call.op \in TargetViewOps
    /\ PlainTexture(call.handle)
    /\ handles[call.handle].resource[1] = "Surface"
    /\ handles[call.handle].info.bind = {"RENDER_TARGET"}
    /\ result.tag = "Ok"
    /\ handles[result.payload].resource = <<"Surface", handles[call.handle].resource[2]>>

====
